---------------------------- MODULE Spec2Model ----------------------------
(***************************************************************************)
(* Name resolution over the Concerto metamodel                             *)
(* (packages/concerto-core/lib/introspect/metamodel.js).                   *)
(*                                                                         *)
(* JSON trees are records carrying their $class in the field "class".      *)
(* JavaScript objects are held in a heap (reference -> content), so that   *)
(* in-place mutation and aliasing are visible: resolveTypeNames writes     *)
(* into the object it is given, resolveMetaModel writes into a copy.       *)
(* An optional field is Undefined or Some(value).  A thrown exception is   *)
(* a record with thrown = TRUE.                                            *)
(***************************************************************************)
EXTENDS Naturals, Sequences, FiniteSets, TLC

VARIABLES
    heap,          \* reference -> JSON tree: every object the caller or the registry holds
    modelManager,  \* the registry: sequence of model files [namespace, ast (a reference)]
    table,         \* the name table the caller got from createNameTable (optional)
    result,        \* what the last call returned (optional)
    error,         \* what the last call threw (NoError if it returned)
    lastCall       \* the last call and its arguments

vars == <<heap, modelManager, table, result, error, lastCall>>

----------------------------------------------------------------------------
(* JavaScript values *)

Undefined == [defined |-> FALSE]

Some(v) == [defined |-> TRUE, value |-> v]

NoError == [thrown |-> FALSE]

\* a property access or a method call on undefined
TypeError(what) == [thrown |-> TRUE, type |-> "TypeError", reading |-> what]

\* throw new Error(`Declaration ${imp.name} in namespace ${namespace} not found`)
DeclarationNotFound(name, namespace) ==
    [thrown |-> TRUE, type |-> "Error", message |-> "Declaration ${imp.name} in namespace ${namespace} not found",
     name |-> name, namespace |-> namespace]

\* throw new Error(`Name ${name} not found`)
NameNotFound(name) ==
    [thrown |-> TRUE, type |-> "Error", message |-> "Name ${name} not found", name |-> name]

\* the error of the structural validator
StructuralError == [thrown |-> TRUE, type |-> "StructuralError"]

\* the members an object literal inherits from Object.prototype.  Each is a function, but
\* __proto__, which is Object.prototype itself; a member is written as the text naming it.
ObjectPrototype ==
    [n \in {"constructor", "__proto__", "hasOwnProperty", "isPrototypeOf",
            "propertyIsEnumerable", "toLocaleString", "toString", "valueOf",
            "__defineGetter__", "__defineSetter__", "__lookupGetter__", "__lookupSetter__"} |->
        IF n = "constructor" THEN "function Object"
        ELSE IF n = "__proto__" THEN "Object.prototype"
        ELSE "function " \o n]

\* the object {}, what JSON.parse(JSON.stringify(Object.prototype)) gives
EmptyObject == "{}"

\* typeof v === 'string': v is neither a function nor an object
IsString(v) == v \notin {ObjectPrototype[n] : n \in DOMAIN ObjectPrototype} \cup {EmptyObject}

\* the sequence s as the set of its elements
Range(s) == {s[i] : i \in 1..Len(s)}

----------------------------------------------------------------------------
(* The metamodel (metaModelCto): the node kinds and their fields *)

ClassLike == {"concerto.metamodel.AssetDeclaration", "concerto.metamodel.ConceptDeclaration",
              "concerto.metamodel.EventDeclaration", "concerto.metamodel.TransactionDeclaration",
              "concerto.metamodel.ParticipantDeclaration"}

PrimitiveProperty == {"concerto.metamodel.BooleanProperty", "concerto.metamodel.DateTimeProperty",
                      "concerto.metamodel.StringProperty", "concerto.metamodel.DoubleProperty",
                      "concerto.metamodel.IntegerProperty", "concerto.metamodel.LongProperty"}

TypeIdentifier(name) ==
    [class |-> "concerto.metamodel.TypeIdentifier", name |-> name, namespace |-> Undefined]

DecoratorString(value) == [class |-> "concerto.metamodel.DecoratorString", value |-> value]

DecoratorTypeReference(name) ==
    [class |-> "concerto.metamodel.DecoratorTypeReference", type |-> TypeIdentifier(name)]

Decorator(name, arguments) ==
    [class |-> "concerto.metamodel.Decorator", name |-> name, arguments |-> arguments]

EnumProperty(name, decorators) ==
    [class |-> "concerto.metamodel.EnumProperty", name |-> name, decorators |-> decorators]

EnumDeclaration(name, properties, decorators) ==
    [class |-> "concerto.metamodel.EnumDeclaration", name |-> name,
     properties |-> properties, decorators |-> decorators]

\* ConceptDeclaration and its four specializations
ConceptDeclaration(class, name, superType, properties, decorators) ==
    [class |-> class, name |-> name, superType |-> superType,
     properties |-> properties, decorators |-> decorators]

\* ObjectProperty and RelationshipProperty
TypedProperty(class, name, typeName, decorators) ==
    [class |-> class, name |-> name, type |-> TypeIdentifier(typeName), decorators |-> decorators]

\* BooleanProperty, DateTimeProperty, StringProperty, DoubleProperty, IntegerProperty, LongProperty
UntypedProperty(class, name, decorators) ==
    [class |-> class, name |-> name, decorators |-> decorators]

ImportAll(namespace) == [class |-> "concerto.metamodel.ImportAll", namespace |-> namespace]

ImportType(namespace, name) ==
    [class |-> "concerto.metamodel.ImportType", namespace |-> namespace, name |-> name]

Model(namespace, imports, declarations) ==
    [class |-> "concerto.metamodel.Model", namespace |-> namespace,
     imports |-> imports, declarations |-> declarations]

----------------------------------------------------------------------------
(* The registry (ModelManager and ModelFile) *)

\* modelManager.getModelFile(namespace)
getModelFile(mgr, namespace) ==
    IF \E i \in 1..Len(mgr) : mgr[i].namespace = namespace
    THEN Some(mgr[CHOOSE i \in 1..Len(mgr) : mgr[i].namespace = namespace])
    ELSE Undefined

\* modelFile.getAllDeclarations(): the declarations of the file's own tree, in order
getAllDeclarations(h, modelFile) ==
    IF h[modelFile.ast].declarations.defined THEN h[modelFile.ast].declarations.value ELSE <<>>

\* modelFile.getLocalType(name): the declaration of that name in the file, or null
getLocalType(h, modelFile, name) ==
    LET decls == getAllDeclarations(h, modelFile) IN
    IF \E i \in 1..Len(decls) : decls[i].name = name
    THEN Some(decls[CHOOSE i \in 1..Len(decls) : decls[i].name = name])
    ELSE Undefined

\* modelManager.getModelFiles()
getModelFiles(mgr) == mgr

----------------------------------------------------------------------------
(* createNameTable *)

\* the object literal of createNameTable
builtinTable ==
    [n \in {"Concept", "Asset", "Participant", "Transaction ", "Event"} |-> "concerto"]

\* table[key] = value, value being a string: an own property is created or overwritten,
\* but the key __proto__ is the accessor of Object.prototype, which ignores a string
setName(t, key, value) ==
    IF key = "__proto__" THEN t
    ELSE [n \in DOMAIN t \cup {key} |-> IF n = key THEN value ELSE t[n]]

\* decls.forEach((decl) => { table[decl.getName()] = namespace; })
RECURSIVE setNames(_, _, _)
setNames(t, decls, namespace) ==
    IF decls = <<>> THEN t
    ELSE setNames(setName(t, Head(decls).name, namespace), Tail(decls), namespace)

\* the body of imports.forEach: one import applied to the table
importNames(h, mgr, t, imp) ==
    LET namespace == imp.namespace
        modelFile == getModelFile(mgr, namespace)
    IN  IF imp.class = "concerto.metamodel.ImportType"
        THEN IF ~modelFile.defined
             THEN [table |-> t, error |-> TypeError("getLocalType")]
             ELSE IF ~getLocalType(h, modelFile.value, imp.name).defined
             THEN [table |-> t, error |-> DeclarationNotFound(imp.name, namespace)]
             ELSE [table |-> setName(t, imp.name, namespace), error |-> NoError]
        ELSE IF ~modelFile.defined
             THEN [table |-> t, error |-> TypeError("getAllDeclarations")]
             ELSE [table |-> setNames(t, getAllDeclarations(h, modelFile.value), namespace),
                   error |-> NoError]

\* imports.forEach(...): the imports in order, stopping at the first throw
RECURSIVE forEachImport(_, _, _, _)

\* the imports after one that gave r
nextImport(h, mgr, r, imports) ==
    IF r.error.thrown THEN r ELSE forEachImport(h, mgr, r.table, imports)

forEachImport(h, mgr, t, imports) ==
    IF imports = <<>> THEN [table |-> t, error |-> NoError]
    ELSE nextImport(h, mgr, importNames(h, mgr, t, Head(imports)), Tail(imports))

\* if (metaModel.declarations) { ...forEach: table[decl.name] = metaModel.namespace }
localNames(t, metaModel) ==
    IF metaModel.declarations.defined
    THEN setNames(t, metaModel.declarations.value, metaModel.namespace)
    ELSE t

\* the end of createNameTable, r being what the imports gave
returnTable(r, metaModel) ==
    IF r.error.thrown
    THEN [table |-> Undefined, error |-> r.error]
    ELSE [table |-> Some(localNames(r.table, metaModel)), error |-> NoError]

\* createNameTable(modelManager, metaModel): the table, or the exception thrown
createNameTable(h, mgr, metaModel) ==
    IF ~metaModel.imports.defined
    THEN [table |-> Undefined, error |-> TypeError("forEach")]
    ELSE returnTable(forEachImport(h, mgr, builtinTable, metaModel.imports.value), metaModel)

----------------------------------------------------------------------------
(* resolveName and resolveTypeNames *)

\* table[name]: the own property, else the member inherited from Object.prototype,
\* else undefined
lookup(t, name) ==
    IF name \in DOMAIN t THEN Some(t[name])
    ELSE IF name \in DOMAIN ObjectPrototype THEN Some(ObjectPrototype[name])
    ELSE Undefined

\* !value for a string or undefined
falsy(v) == ~v.defined \/ v.value = ""

\* resolveName(name, table): the namespace, or the exception thrown
resolveName(name, t) ==
    IF falsy(lookup(t, name))
    THEN [namespace |-> Undefined, error |-> NameNotFound(name)]
    ELSE [namespace |-> lookup(t, name), error |-> NoError]

\* the write of x.namespace, r being what resolveName gave
setNamespace(typeId, r) ==
    IF r.error.thrown
    THEN [node |-> typeId, error |-> r.error]
    ELSE [node |-> [typeId EXCEPT !.namespace = r.namespace], error |-> NoError]

\* const name = x.name; x.namespace = MetaModel.resolveName(name, table), x a TypeIdentifier
resolveTypeIdentifier(typeId, t) == setNamespace(typeId, resolveName(typeId.name, t))

RECURSIVE resolveTypeNames(_, _), forEachResolve(_, _)

\* r, a resolved array, as the optional field it came from
asOptional(r) == [node |-> Some(r.node), error |-> r.error]

\* if (x) { x.forEach((child) => resolveTypeNames(child, table)) } for an optional array x
resolveOptional(children, t) ==
    IF children.defined
    THEN asOptional(forEachResolve(children.value, t))
    ELSE [node |-> children, error |-> NoError]

\* if (metaModel.superType) { metaModel.superType.namespace = resolveName(name, table) }
resolveSuperType(metaModel, t) ==
    IF metaModel.superType.defined
    THEN [node |-> [metaModel EXCEPT !.superType =
                       Some(resolveTypeIdentifier(metaModel.superType.value, t).node)],
          error |-> resolveTypeIdentifier(metaModel.superType.value, t).error]
    ELSE [node |-> metaModel, error |-> NoError]

\* metaModel.type.namespace = resolveName(metaModel.type.name, table)
resolveType(metaModel, t) ==
    IF "type" \notin DOMAIN metaModel
    THEN [node |-> metaModel, error |-> TypeError("name")]
    ELSE [node |-> [metaModel EXCEPT !.type = resolveTypeIdentifier(metaModel.type, t).node],
          error |-> resolveTypeIdentifier(metaModel.type, t).error]

\* the node with its children replaced by the resolved ones
withProperties(metaModel, r) == [node |-> [metaModel EXCEPT !.properties = r.node], error |-> r.error]

withDecorators(metaModel, r) == [node |-> [metaModel EXCEPT !.decorators = r.node], error |-> r.error]

withArguments(metaModel, r) == [node |-> [metaModel EXCEPT !.arguments = r.node], error |-> r.error]

withDeclarations(metaModel, r) ==
    [node |-> [metaModel EXCEPT !.declarations = r.node], error |-> r.error]

\* metaModel.properties.forEach(...), unless the statements before it threw
thenProperties(s, t) ==
    IF s.error.thrown THEN s ELSE withProperties(s.node, forEachResolve(s.node.properties, t))

\* if (metaModel.decorators) { metaModel.decorators.forEach(...) }, unless the statements
\* before it threw
thenDecorators(s, t) ==
    IF s.error.thrown THEN s ELSE withDecorators(s.node, resolveOptional(s.node.decorators, t))

\* the five class-like declarations: superType, then properties, then decorators
resolveClassDeclaration(metaModel, t) ==
    thenDecorators(thenProperties(resolveSuperType(metaModel, t), t), t)

\* the decorators of every property, whatever its kind
RECURSIVE propertyDecorators(_, _)
propertyDecorators(properties, t) ==
    IF properties = <<>> THEN [node |-> <<>>, error |-> NoError]
    ELSE IF resolveOptional(Head(properties).decorators, t).error.thrown
    THEN [node |-> <<withDecorators(Head(properties),
                                    resolveOptional(Head(properties).decorators, t)).node>>
                   \o Tail(properties),
          error |-> resolveOptional(Head(properties).decorators, t).error]
    ELSE [node |-> <<withDecorators(Head(properties),
                                    resolveOptional(Head(properties).decorators, t)).node>>
                   \o propertyDecorators(Tail(properties), t).node,
          error |-> propertyDecorators(Tail(properties), t).error]

\* an EnumDeclaration whose properties' decorators are resolved too
resolveEnumDeclarationAndProperties(metaModel, t) ==
    thenDecorators(withProperties(metaModel, propertyDecorators(metaModel.properties, t)), t)

\* EnumDeclaration: the declaration's decorators
resolveEnumDeclaration(metaModel, t) ==
    withDecorators(metaModel, resolveOptional(metaModel.decorators, t))

\* EnumProperty, ObjectProperty, RelationshipProperty: the type, then the decorators
resolveProperty(metaModel, t) == thenDecorators(resolveType(metaModel, t), t)

\* resolveTypeNames(metaModel, table): the node after the call and the exception thrown,
\* the node being written in place up to the throw
resolveTypeNames(metaModel, t) ==
    CASE metaModel.class = "concerto.metamodel.Model" ->
            withDeclarations(metaModel, resolveOptional(metaModel.declarations, t))
      [] metaModel.class \in ClassLike -> resolveClassDeclaration(metaModel, t)
      [] metaModel.class = "concerto.metamodel.EnumDeclaration" ->
            resolveEnumDeclaration(metaModel, t)
      [] metaModel.class \in {"concerto.metamodel.EnumProperty",
                              "concerto.metamodel.ObjectProperty",
                              "concerto.metamodel.RelationshipProperty"} ->
            resolveProperty(metaModel, t)
      [] metaModel.class = "concerto.metamodel.Decorator" ->
            withArguments(metaModel, resolveOptional(metaModel.arguments, t))
      [] metaModel.class = "concerto.metamodel.DecoratorTypeReference" ->
            resolveType(metaModel, t)
      [] OTHER -> [node |-> metaModel, error |-> NoError]

\* the nodes after one that gave r: none is visited once one threw
nextNode(r, nodes, t) ==
    IF r.error.thrown
    THEN [node |-> <<r.node>> \o nodes, error |-> r.error]
    ELSE [node |-> <<r.node>> \o forEachResolve(nodes, t).node,
          error |-> forEachResolve(nodes, t).error]

\* forEach over an array of nodes, stopping at the first throw
forEachResolve(nodes, t) ==
    IF nodes = <<>> THEN [node |-> <<>>, error |-> NoError]
    ELSE nextNode(resolveTypeNames(Head(nodes), t), Tail(nodes), t)

----------------------------------------------------------------------------
(* validateMetaModel, resolveMetaModel, modelManagerToMetaModel *)

\* a heap with one more object
allocate(h, fresh, content) == [r \in DOMAIN h \cup {fresh} |-> IF r = fresh THEN content ELSE h[r]]

\* The regex of Declaration.name, EnumProperty.name and Property.name, over ASCII names:
\* \p{Lu}, \p{Ll}, \p{Lt}, \p{Lm}, \p{Lo} and \p{Nl} are the letters, \p{Nd} the digits,
\* \p{Pc} the underscore; ASCII has no \p{Mn}, \p{Mc}, \u200C or \u200D.
Letters ==
    {"a", "b", "c", "d", "e", "f", "g", "h", "i", "j", "k", "l", "m",
     "n", "o", "p", "q", "r", "s", "t", "u", "v", "w", "x", "y", "z",
     "A", "B", "C", "D", "E", "F", "G", "H", "I", "J", "K", "L", "M",
     "N", "O", "P", "Q", "R", "S", "T", "U", "V", "W", "X", "Y", "Z"}

Digits == {"0", "1", "2", "3", "4", "5", "6", "7", "8", "9"}

\* [0-9A-Fa-f]
HexDigits == Digits \cup {"a", "b", "c", "d", "e", "f", "A", "B", "C", "D", "E", "F"}

\* the characters that may begin a name
IdentifierStart == Letters \cup {"$", "_"}

\* the characters that may follow
IdentifierPart == IdentifierStart \cup Digits

startsWith(s, prefix) == Len(s) >= Len(prefix) /\ SubSeq(s, 1, Len(prefix)) = prefix

\* s without its first n characters
drop(s, n) == IF Len(s) <= n THEN "" ELSE SubSeq(s, n + 1, Len(s))

\* s begins with a backslash, u and four hexadecimal digits
startsWithEscape(s) ==
    /\ Len(s) >= 6
    /\ SubSeq(s, 1, 2) = "\\u"
    /\ \A i \in 3..6 : SubSeq(s, i, i) \in HexDigits

\* (?: ... )*$ : every further character, or escape, may follow
RECURSIVE identifierPart(_)
identifierPart(s) ==
    IF s = "" THEN TRUE
    ELSE IF Head(s) \in IdentifierPart THEN identifierPart(Tail(s))
    ELSE IF startsWithEscape(s) THEN identifierPart(drop(s, 6))
    ELSE FALSE

\* regex.test(name): the name begins with none of null, true and false, its first
\* character (or escape) may begin a name and the others may follow
IsIdentifier(name) ==
    /\ ~startsWith(name, "null")
    /\ ~startsWith(name, "true")
    /\ ~startsWith(name, "false")
    /\ name # ""
    /\ \/ Head(name) \in IdentifierStart /\ identifierPart(Tail(name))
       \/ startsWithEscape(name) /\ identifierPart(drop(name, 6))

\* the schema of a TypeIdentifier: namespace is an optional String
conformsType(typeId) == ~typeId.namespace.defined \/ IsString(typeId.namespace.value)

conformsDecorators(decorators) ==
    decorators.defined =>
        \A d \in Range(decorators.value) :
            d.arguments.defined =>
                \A a \in Range(d.arguments.value) :
                    a.class = "concerto.metamodel.DecoratorTypeReference" => conformsType(a.type)

conformsProperty(p) ==
    /\ IsIdentifier(p.name)
    /\ ("type" \in DOMAIN p => conformsType(p.type))
    /\ conformsDecorators(p.decorators)

conformsDeclaration(d) ==
    /\ IsIdentifier(d.name)
    /\ (("superType" \in DOMAIN d /\ d.superType.defined) => conformsType(d.superType.value))
    /\ \A p \in Range(d.properties) : conformsProperty(p)
    /\ conformsDecorators(d.decorators)

\* the tree of a Model matches the schema
conforms(m) ==
    m.declarations.defined => \A d \in Range(m.declarations.value) : conformsDeclaration(d)

\* serializer.toJSON(serializer.fromJSON(input)): a new object holding the validated tree,
\* or the validator's error for a tree that does not match the schema
serializerRoundTrip(h, input, fresh) ==
    IF conforms(h[input])
    THEN [heap |-> allocate(h, fresh, h[input]), ref |-> fresh, error |-> NoError]
    ELSE [heap |-> h, ref |-> input, error |-> StructuralError]

\* validateMetaModel(input)
validateMetaModel(h, input, fresh) == serializerRoundTrip(h, input, fresh)

\* JSON.parse(JSON.stringify(v)) for the value of a namespace field: a function-valued
\* property is left out, an object without own properties comes back as {}
stringifyNamespace(namespace) ==
    IF ~namespace.defined \/ IsString(namespace.value) THEN namespace
    ELSE IF namespace.value \in {ObjectPrototype["__proto__"], EmptyObject} THEN Some(EmptyObject)
    ELSE Undefined

stringifyType(typeId) == [typeId EXCEPT !.namespace = stringifyNamespace(@)]

stringifyArgument(argument) ==
    IF argument.class = "concerto.metamodel.DecoratorTypeReference"
    THEN [argument EXCEPT !.type = stringifyType(@)]
    ELSE argument

stringifyDecorator(decorator) ==
    IF decorator.arguments.defined
    THEN [decorator EXCEPT !.arguments =
            Some([j \in 1..Len(@.value) |-> stringifyArgument(@.value[j])])]
    ELSE decorator

stringifyDecorators(decorators) ==
    IF decorators.defined
    THEN Some([i \in 1..Len(decorators.value) |-> stringifyDecorator(decorators.value[i])])
    ELSE decorators

stringifyProperty(p) ==
    IF "type" \in DOMAIN p
    THEN [p EXCEPT !.type = stringifyType(@), !.decorators = stringifyDecorators(@)]
    ELSE [p EXCEPT !.decorators = stringifyDecorators(@)]

stringifyDeclaration(d) ==
    IF "superType" \in DOMAIN d
    THEN [d EXCEPT !.superType = IF @.defined THEN Some(stringifyType(@.value)) ELSE @,
                   !.properties = [j \in 1..Len(@) |-> stringifyProperty(@[j])],
                   !.decorators = stringifyDecorators(@)]
    ELSE [d EXCEPT !.properties = [j \in 1..Len(@) |-> stringifyProperty(@[j])],
                   !.decorators = stringifyDecorators(@)]

\* JSON.parse(JSON.stringify(m)) for the tree of a Model: strings, arrays and objects
\* come back as they are, absent fields stay absent
stringify(m) ==
    [m EXCEPT !.declarations =
        IF @.defined THEN Some([i \in 1..Len(@.value) |-> stringifyDeclaration(@.value[i])])
        ELSE @]

\* no copy: the working tree is the very object mm
JSONCopyAliased(h, mm, fresh) == [heap |-> h, ref |-> mm]

\* JSON.parse(JSON.stringify(mm)): a new object with the content of mm
JSONCopy(h, mm, fresh) == [heap |-> allocate(h, fresh, stringify(h[mm])), ref |-> fresh]

\* const mm = validate ? MetaModel.validateMetaModel(metaModel) : metaModel
validated(h, metaModel, validate, tmp) ==
    IF validate THEN validateMetaModel(h, metaModel, tmp)
    ELSE [heap |-> h, ref |-> metaModel, error |-> NoError]

\* the end of resolveMetaModel: result is the object c.ref, written by resolveTypeNames
\* as r says
returnResult(c, r) ==
    [heap |-> [c.heap EXCEPT ![c.ref] = r.node],
     result |-> IF r.error.thrown THEN Undefined ELSE Some(c.ref),
     error |-> r.error]

\* MetaModel.resolveTypeNames(result, nameTable), unless createNameTable threw
resolveResult(c, nameTable) ==
    IF nameTable.error.thrown
    THEN [heap |-> c.heap, result |-> Undefined, error |-> nameTable.error]
    ELSE returnResult(c, resolveTypeNames(c.heap[c.ref], nameTable.table.value))

\* result = JSON.parse(JSON.stringify(mm)); nameTable = createNameTable(modelManager, mm),
\* unless the validation threw
copyAndResolve(v, mgr, fresh) ==
    IF v.error.thrown
    THEN [heap |-> v.heap, result |-> Undefined, error |-> v.error]
    ELSE resolveResult(JSONCopy(v.heap, v.ref, fresh),
                       createNameTable(v.heap, mgr, v.heap[v.ref]))

\* resolveMetaModel(modelManager, metaModel, validate): the heap after the call, the
\* reference returned and the exception thrown.  tmp and fresh name the objects it creates.
resolveMetaModel(h, mgr, metaModel, validate, tmp, fresh) ==
    copyAndResolve(validated(h, metaModel, validate, tmp), mgr, fresh)

\* the objects modelManagerToMetaModel creates, one per model file
ExportRefs == <<"export1", "export2", "export3">>

\* modelManager.getModelFiles().forEach(...) of modelManagerToMetaModel, from file i on:
\* the heap, the references pushed onto result.models and the exception thrown
RECURSIVE forEachModelFile(_, _, _, _, _)

\* result.models.push(metaModel) and the files after file i, r being what
\* resolveMetaModel gave for file i
nextModelFile(r, mgr, resolve, i, models) ==
    IF r.error.thrown
    THEN [heap |-> r.heap, models |-> models, error |-> r.error]
    ELSE forEachModelFile(r.heap, mgr, resolve, i + 1, Append(models, r.result.value))

forEachModelFile(h, mgr, resolve, i, models) ==
    IF i > Len(getModelFiles(mgr)) THEN [heap |-> h, models |-> models, error |-> NoError]
    ELSE IF resolve
         THEN nextModelFile(resolveMetaModel(h, mgr, getModelFiles(mgr)[i].ast, FALSE, "mm",
                                             ExportRefs[i]),
                            mgr, resolve, i, models)
         ELSE forEachModelFile(h, mgr, resolve, i + 1, Append(models, getModelFiles(mgr)[i].ast))

\* the end of modelManagerToMetaModel: the Models object, r being what the loop gave
returnModels(r, fresh) ==
    IF r.error.thrown
    THEN [heap |-> r.heap, result |-> Undefined, error |-> r.error]
    ELSE [heap |-> allocate(r.heap, fresh,
                            [class |-> "concerto.metamodel.Models", models |-> r.models]),
          result |-> Some(fresh), error |-> NoError]

\* modelManagerToMetaModel(modelManager, resolve, validate)
modelManagerToMetaModel(h, mgr, resolve, validate, fresh) ==
    returnModels(forEachModelFile(h, mgr, resolve, 1, <<>>), fresh)

\* the objects still referenced after a call: the caller's tree, the registry's trees,
\* the objects in kept and the objects those refer to
reachable(h, mgr, kept) ==
    [r \in ({"metaModel"} \cup {mgr[i].ast : i \in 1..Len(mgr)} \cup kept
            \cup UNION {IF h[k].class = "concerto.metamodel.Models" THEN Range(h[k].models) ELSE {}
                        : k \in kept \cap DOMAIN h}) \cap DOMAIN h |-> h[r]]

----------------------------------------------------------------------------
(* The inputs: registries and models under resolution *)

\* longest import list of a model under resolution
MaxImports == 2

\* longest declaration list of a model under resolution
MaxDecls == 2

\* the sequences over S of length at most n
SeqsUpTo(S, n) == UNION {[1..k -> S] : k \in 0..n}

Concept(name) ==
    ConceptDeclaration("concerto.metamodel.ConceptDeclaration", name, Undefined, <<>>, Undefined)

\* @name(n) with one type reference as its argument
RefDecorator(n) == Decorator("ref", Some(<<DecoratorString("s"), DecoratorTypeReference(n)>>))

\* the model files of namespace org.one
OneFiles ==
    {Model("org.one", Some(<<>>), Some(<<Concept("Foo"), Concept("Bar"), Concept("__proto__")>>)),
     Model("org.one", Some(<<>>), Some(<<Concept("Bar")>>))}

\* the model files of namespace org.two
TwoFiles ==
    {Model("org.two", Some(<<>>), Some(<<Concept("Foo"), Concept("Bar")>>)),
     Model("org.two", Some(<<ImportAll("org.one")>>),
           Some(<<ConceptDeclaration("concerto.metamodel.AssetDeclaration", "Baz", Undefined,
                     <<TypedProperty("concerto.metamodel.ObjectProperty", "p", "Foo", Undefined)>>,
                     Undefined)>>)),
     Model("org.two", Some(<<ImportType("org.one", "Foo")>>),
           Some(<<ConceptDeclaration("concerto.metamodel.ConceptDeclaration", "Bar",
                     Some(TypeIdentifier("Foo")), <<>>, Some(<<RefDecorator("Bar")>>))>>))}

Registries == {<<one, two>> : one \in OneFiles, two \in TwoFiles}

ImportChoices ==
    {ImportAll("org.one"), ImportAll("org.two"), ImportAll("org.missing"),
     ImportType("org.one", "Foo"), ImportType("org.two", "Foo"), ImportType("org.two", "Bar"),
     ImportType("org.missing", "Foo"), ImportType("org.one", "__proto__")}

\* the names a type reference of a model under resolution may carry
RefNames == {"Foo", "Bar"}

BuiltinNames == {"Concept", "Asset", "Participant", "Transaction", "Event"}

\* declarations with one type reference, at each place a reference can stand
RefDeclarations(n) ==
    {ConceptDeclaration("concerto.metamodel.ConceptDeclaration", "Bar",
        Some(TypeIdentifier(n)), <<>>, Undefined),
     ConceptDeclaration("concerto.metamodel.ConceptDeclaration", "A", Undefined,
        <<UntypedProperty("concerto.metamodel.BooleanProperty", "b", Undefined),
          TypedProperty("concerto.metamodel.ObjectProperty", "p", n, Some(<<RefDecorator(n)>>))>>,
        Some(<<>>)),
     ConceptDeclaration("concerto.metamodel.AssetDeclaration", "A", Undefined,
        <<TypedProperty("concerto.metamodel.RelationshipProperty", "r", n, Undefined)>>,
        Some(<<Decorator("plain", Undefined), RefDecorator(n)>>)),
     ConceptDeclaration("concerto.metamodel.EventDeclaration", "A", Undefined,
        <<UntypedProperty("concerto.metamodel.StringProperty", "s", Some(<<RefDecorator(n)>>))>>,
        Undefined),
     EnumDeclaration("E", <<EnumProperty("X", Undefined)>>, Some(<<RefDecorator(n)>>)),
     EnumDeclaration("E", <<EnumProperty("X", Some(<<RefDecorator(n)>>))>>, Undefined)}

\* declarations extending a built-in type
BuiltinDeclarations ==
    {ConceptDeclaration("concerto.metamodel.ParticipantDeclaration", "P",
        Some(TypeIdentifier(n)), <<>>, Undefined) : n \in BuiltinNames}

\* declarations whose references name members of Object.prototype
PrototypeDeclarations ==
    {ConceptDeclaration("concerto.metamodel.ConceptDeclaration", "Bar",
        Some(TypeIdentifier("constructor")), <<>>, Undefined),
     ConceptDeclaration("concerto.metamodel.ConceptDeclaration", "A", Undefined,
        <<TypedProperty("concerto.metamodel.ObjectProperty", "p", "__proto__", Undefined)>>,
        Some(<<RefDecorator("toString")>>))}

\* declarations without references: an ordinary name, a member of Object.prototype, and
\* a name the regex rejects
PlainDeclarations == {Concept("Foo"), Concept("__proto__"), Concept("1x")}

DeclChoices ==
    UNION {RefDeclarations(n) : n \in RefNames} \cup BuiltinDeclarations
    \cup PrototypeDeclarations \cup PlainDeclarations

\* models with many import lists and few declaration lists
ImportModels ==
    {Model("org.acme", imports, declarations) :
        imports \in {Undefined} \cup {Some(s) : s \in SeqsUpTo(ImportChoices, MaxImports)},
        declarations \in {Undefined,
                          Some(<<Concept("Foo")>>),
                          Some(<<Concept("Event"),
                                 ConceptDeclaration("concerto.metamodel.ConceptDeclaration", "A",
                                    Some(TypeIdentifier("Foo")),
                                    <<TypedProperty("concerto.metamodel.ObjectProperty", "p", "Bar",
                                                    Undefined)>>,
                                    Undefined)>>)}}

\* models with few import lists and many declaration lists
DeclModels ==
    {Model("org.acme", imports, declarations) :
        imports \in {Some(<<>>), Some(<<ImportAll("org.one")>>)},
        declarations \in {Some(s) : s \in SeqsUpTo(DeclChoices, MaxDecls)}}

\* registries for the models of DeclModels
DeclRegistries ==
    {<<Model("org.one", Some(<<>>), Some(<<Concept("Foo")>>)),
       Model("org.two", Some(<<ImportType("org.one", "Foo")>>),
           Some(<<ConceptDeclaration("concerto.metamodel.ConceptDeclaration", "Bar",
                     Some(TypeIdentifier("Foo")), <<>>, Some(<<RefDecorator("Bar")>>))>>))>>}

AstRefs == <<"ast1", "ast2">>

\* the names resolveName is called with
LookupNames == RefNames \cup {"Event", "Transaction", "Transaction ", "constructor"}

----------------------------------------------------------------------------
(* The state machine: the caller holds one model and a registry and calls  *)
(* one operation on them, then the operations that take what it returned   *)

\* a registry and a model to resolve against it
Inputs ==
    {[files |-> f, model |-> m] : f \in Registries, m \in ImportModels}
    \cup {[files |-> f, model |-> m] : f \in DeclRegistries, m \in DeclModels}

Init ==
    /\ \E input \in Inputs :
       LET files == input.files
           model == input.model
       IN /\ heap = [r \in {"metaModel"} \cup Range(AstRefs) |->
                        IF r = "metaModel" THEN model
                        ELSE files[CHOOSE i \in 1..Len(AstRefs) : AstRefs[i] = r]]
          /\ modelManager = [i \in 1..Len(files) |->
                                [namespace |-> files[i].namespace, ast |-> AstRefs[i]]]
    /\ table = Undefined
    /\ result = Undefined
    /\ error = NoError
    /\ lastCall = [op |-> "none"]

\* the caller's state after a call that gave r, the caller keeping the objects in kept
Returned(r, kept) ==
    /\ heap' = reachable(r.heap, modelManager,
                         kept \cup IF r.result.defined THEN {r.result.value} ELSE {})
    /\ result' = r.result
    /\ error' = r.error

\* const t = MetaModel.createNameTable(modelManager, metaModel)
CreateNameTable ==
    /\ lastCall.op = "none"
    /\ table' = createNameTable(heap, modelManager, heap["metaModel"]).table
    /\ error' = createNameTable(heap, modelManager, heap["metaModel"]).error
    /\ result' = Undefined
    /\ lastCall' = [op |-> "createNameTable"]
    /\ heap' = reachable(heap, modelManager, {})
    /\ UNCHANGED modelManager

\* MetaModel.resolveName(name, t)
ResolveName(name) ==
    /\ lastCall.op = "createNameTable"
    /\ table.defined
    /\ result' = resolveName(name, table.value).namespace
    /\ error' = resolveName(name, table.value).error
    /\ lastCall' = [op |-> "resolveName", name |-> name]
    /\ heap' = reachable(heap, modelManager, {})
    /\ UNCHANGED <<modelManager, table>>

\* what resolveTypeNames gives when called on the object ref: it writes into that object
\* and returns it
inPlace(h, ref, r) ==
    [heap |-> [h EXCEPT ![ref] = r.node],
     result |-> IF r.error.thrown THEN Undefined ELSE Some(ref),
     error |-> r.error]

\* MetaModel.resolveTypeNames(metaModel, t): writes into the caller's tree.
\* The caller makes a first pass and then a second one over the same tree.
ResolveTypeNames ==
    /\ \/ lastCall.op = "createNameTable"
       \/ lastCall.op = "resolveTypeNames" /\ lastCall.pass = 1
    /\ table.defined
    /\ Returned(inPlace(heap, "metaModel", resolveTypeNames(heap["metaModel"], table.value)), {})
    /\ lastCall' = [op |-> "resolveTypeNames",
                    pass |-> IF lastCall.op = "resolveTypeNames" THEN 2 ELSE 1]
    /\ UNCHANGED <<modelManager, table>>

\* MetaModel.resolveMetaModel(modelManager, metaModel, validate)
ResolveMetaModel(validate) ==
    /\ lastCall.op \in {"none", "resolveTypeNames"}
    /\ Returned(resolveMetaModel(heap, modelManager, "metaModel", validate, "mm", "resolved"), {})
    /\ lastCall' = [op |-> "resolveMetaModel", metaModel |-> "metaModel", validate |-> validate]
    /\ UNCHANGED <<modelManager, table>>

\* MetaModel.resolveMetaModel(modelManager, resolved, validate), resolved being what
\* the previous resolveMetaModel returned
ResolveResolved(validate) ==
    /\ lastCall.op = "resolveMetaModel"
    /\ lastCall.metaModel = "metaModel"
    /\ result.defined
    /\ Returned(resolveMetaModel(heap, modelManager, result.value, validate, "mm", "resolved2"),
                {result.value})
    /\ lastCall' = [op |-> "resolveMetaModel", metaModel |-> result.value, validate |-> validate]
    /\ UNCHANGED <<modelManager, table>>

\* MetaModel.modelManagerToMetaModel(modelManager, resolve, validate); the function
\* never reads validate
ModelManagerToMetaModel(resolve, validate) ==
    /\ lastCall.op = "none"
    /\ Returned(modelManagerToMetaModel(heap, modelManager, resolve, validate, "models"), {})
    /\ lastCall' = [op |-> "modelManagerToMetaModel", resolve |-> resolve]
    /\ UNCHANGED <<modelManager, table>>

Next ==
    \/ CreateNameTable
    \/ \E name \in LookupNames : ResolveName(name)
    \/ ResolveTypeNames
    \/ \E validate \in BOOLEAN : ResolveMetaModel(validate)
    \/ \E validate \in BOOLEAN : ResolveResolved(validate)
    \/ \E resolve \in BOOLEAN, validate \in BOOLEAN : ModelManagerToMetaModel(resolve, validate)

Spec == Init /\ [][Next]_vars

----------------------------------------------------------------------------
(* What the claims speak of *)

Declarations(m) == IF m.declarations.defined THEN m.declarations.value ELSE <<>>

Imports(m) == IF m.imports.defined THEN m.imports.value ELSE <<>>

LocalNames(m) == {d.name : d \in Range(Declarations(m))}

\* the registry knows the namespace
Known(namespace) == \E i \in 1..Len(modelManager) : modelManager[i].namespace = namespace

\* the registry's model of the namespace declares the name locally
Declares(namespace, name) ==
    \E i \in 1..Len(modelManager) :
        /\ modelManager[i].namespace = namespace
        /\ name \in LocalNames(heap[modelManager[i].ast])

\* the import brings the short name into scope
Introduces(imp, name) ==
    IF imp.class = "concerto.metamodel.ImportType"
    THEN imp.name = name
    ELSE Declares(imp.namespace, name)

\* an ImportType whose namespace the registry knows and which does not declare its name
MissingTarget(imp) ==
    /\ imp.class = "concerto.metamodel.ImportType"
    /\ Known(imp.namespace)
    /\ ~Declares(imp.namespace, imp.name)

\* the import can be applied: its namespace is known and its target exists
ImportOk(imp) == Known(imp.namespace) /\ ~MissingTarget(imp)

\* the short names the imports of the model can introduce
ImportedNames(m) ==
    {imp.name : imp \in {x \in Range(Imports(m)) : x.class = "concerto.metamodel.ImportType"}}
    \cup UNION {LocalNames(heap[r]) : r \in {modelManager[i].ast : i \in 1..Len(modelManager)}}

\* the name is neither built-in, nor introduced by an import, nor declared locally
Dangling(m, name) ==
    /\ name \notin BuiltinNames
    /\ name \notin LocalNames(m)
    /\ \A i \in 1..Len(Imports(m)) : ~Introduces(Imports(m)[i], name)

RECURSIVE Concat(_)
Concat(ss) == IF Len(ss) = 0 THEN <<>> ELSE Head(ss) \o Concat(Tail(ss))

IsTypeReference(argument) == argument.class = "concerto.metamodel.DecoratorTypeReference"

\* the TypeIdentifiers of the DecoratorTypeReference arguments of a decorator list, in order
DecoratorTypes(decorators) ==
    IF decorators.defined
    THEN Concat([i \in 1..Len(decorators.value) |->
                   IF decorators.value[i].arguments.defined
                   THEN LET refs == SelectSeq(decorators.value[i].arguments.value, IsTypeReference)
                        IN  [j \in 1..Len(refs) |-> refs[j].type]
                   ELSE <<>>])
    ELSE <<>>

\* the TypeIdentifiers of a declaration list that stand in a superType, in the type of an
\* ObjectProperty or RelationshipProperty or its decorators, or in the decorators of a
\* declaration, in order
ReachedTypes(m) ==
    Concat([i \in 1..Len(Declarations(m)) |->
        LET d == Declarations(m)[i] IN
        IF d.class \in ClassLike
        THEN (IF d.superType.defined THEN <<d.superType.value>> ELSE <<>>)
             \o Concat([j \in 1..Len(d.properties) |->
                    IF d.properties[j].class \in {"concerto.metamodel.ObjectProperty",
                                                  "concerto.metamodel.RelationshipProperty"}
                    THEN <<d.properties[j].type>> \o DecoratorTypes(d.properties[j].decorators)
                    ELSE <<>>])
             \o DecoratorTypes(d.decorators)
        ELSE DecoratorTypes(d.decorators)])

\* the TypeIdentifiers in the decorators of the properties of the EnumDeclarations
EnumPropertyTypes(m) ==
    Concat([i \in 1..Len(Declarations(m)) |->
        LET d == Declarations(m)[i] IN
        IF d.class = "concerto.metamodel.EnumDeclaration"
        THEN Concat([j \in 1..Len(d.properties) |-> DecoratorTypes(d.properties[j].decorators)])
        ELSE <<>>])

\* the TypeIdentifiers in the decorators of the properties of the class-like declarations
PropertyDecoratorTypes(m) ==
    Concat([i \in 1..Len(Declarations(m)) |->
        LET d == Declarations(m)[i] IN
        IF d.class \in ClassLike
        THEN Concat([j \in 1..Len(d.properties) |-> DecoratorTypes(d.properties[j].decorators)])
        ELSE <<>>])

\* the TypeIdentifiers in the own decorators of the EnumDeclarations
EnumDecoratorTypes(m) ==
    Concat([i \in 1..Len(Declarations(m)) |->
        IF Declarations(m)[i].class = "concerto.metamodel.EnumDeclaration"
        THEN DecoratorTypes(Declarations(m)[i].decorators)
        ELSE <<>>])

\* the tree with the namespace of every TypeIdentifier taken away
EraseType(typeId) == [typeId EXCEPT !.namespace = Undefined]

EraseDecorators(decorators) ==
    IF decorators.defined
    THEN Some([i \in 1..Len(decorators.value) |->
            IF decorators.value[i].arguments.defined
            THEN [decorators.value[i] EXCEPT !.arguments =
                    Some([j \in 1..Len(@.value) |->
                            IF IsTypeReference(@.value[j])
                            THEN [@.value[j] EXCEPT !.type = EraseType(@)]
                            ELSE @.value[j]])]
            ELSE decorators.value[i]])
    ELSE decorators

EraseProperty(p) ==
    IF "type" \in DOMAIN p
    THEN [p EXCEPT !.type = EraseType(@), !.decorators = EraseDecorators(@)]
    ELSE [p EXCEPT !.decorators = EraseDecorators(@)]

EraseDeclaration(d) ==
    IF "superType" \in DOMAIN d
    THEN [d EXCEPT !.superType = IF @.defined THEN Some(EraseType(@.value)) ELSE @,
                   !.properties = [j \in 1..Len(@) |-> EraseProperty(@[j])],
                   !.decorators = EraseDecorators(@)]
    ELSE [d EXCEPT !.properties = [j \in 1..Len(@) |-> EraseProperty(@[j])],
                   !.decorators = EraseDecorators(@)]

Erase(m) ==
    [m EXCEPT !.declarations =
        IF @.defined THEN Some([i \in 1..Len(@.value) |-> EraseDeclaration(@.value[i])]) ELSE @]

\* the properties of the EnumDeclarations of a model, by position
EnumProperties(m) ==
    [i \in {k \in 1..Len(Declarations(m)) :
                Declarations(m)[k].class = "concerto.metamodel.EnumDeclaration"} |->
        Declarations(m)[i].properties]

\* the name table of the caller has no entry for the TypeIdentifier
Unknown(typeId) == typeId.name \notin DOMAIN table.value

\* the namespace of the TypeIdentifier is what table[type.name] gives on the caller's table
ResolvedByTable(typeId) ==
    /\ lookup(table.value, typeId.name).defined
    /\ typeId.namespace = lookup(table.value, typeId.name)

\* the last call was resolveMetaModel on the caller's tree, and the validator, if asked,
\* accepted the tree
ResolvedCallerTree ==
    /\ lastCall.op = "resolveMetaModel"
    /\ lastCall.metaModel = "metaModel"
    /\ (lastCall.validate => conforms(heap["metaModel"]))

----------------------------------------------------------------------------
\* C1: resolveMetaModel (with or without validation, returning or throwing) and
\* modelManagerToMetaModel leave every object that existed before the call as it was:
\* the caller's tree and the registry's trees keep all their fields; what
\* resolveMetaModel returns is an object that did not exist before the call.
ResolveLeavesArgumentUnmutated ==
    [][lastCall'.op \in {"resolveMetaModel", "modelManagerToMetaModel"} =>
         /\ \A r \in DOMAIN heap : r \in DOMAIN heap' /\ heap'[r] = heap[r]
         /\ (lastCall'.op = "resolveMetaModel" /\ result'.defined) =>
                result'.value \notin DOMAIN heap]_vars

\* resolveMetaModel without validation returned a copy whose namespaces are resolved
\* and which differs from the caller's tree
ResolvedCopyDiffers ==
    /\ lastCall.op = "resolveMetaModel"
    /\ lastCall.metaModel = "metaModel"
    /\ ~lastCall.validate
    /\ result.defined
    /\ heap[result.value] # heap["metaModel"]
    /\ \E d \in Range(Declarations(heap[result.value])) :
          "superType" \in DOMAIN d /\ d.superType.defined /\ d.superType.value.namespace.defined

\* C2: after createNameTable returned, a name introduced by more than one import and
\* not declared locally maps to the namespace of the last import introducing it; and
\* imports that can each be applied never make createNameTable throw, whatever names
\* they share.
LastImportWins ==
    lastCall.op = "createNameTable" =>
        LET m == heap["metaModel"]
            imports == Imports(m)
        IN  /\ table.defined =>
                \A n \in ImportedNames(m) \ LocalNames(m) :
                    LET intro == {i \in 1..Len(imports) : Introduces(imports[i], n)} IN
                    Cardinality(intro) > 1 =>
                        /\ n \in DOMAIN table.value
                        /\ table.value[n] =
                              imports[CHOOSE i \in intro : \A j \in intro : j <= i].namespace
            /\ (m.imports.defined /\ \A i \in 1..Len(imports) : ImportOk(imports[i])) =>
                   ~error.thrown /\ table.defined

\* C3: after createNameTable returned, every locally declared name maps to the
\* namespace of the model, whatever the imports and the built-in names.
LocalsAlwaysWin ==
    (lastCall.op = "createNameTable" /\ table.defined) =>
        \A n \in LocalNames(heap["metaModel"]) :
            n \in DOMAIN table.value /\ table.value[n] = heap["metaModel"].namespace

\* C4: a model with an empty import list and no local declaration of a built-in name,
\* whose type references all name one of Concept, Asset, Participant, Transaction and
\* Event, is resolved without failure and every reference gets the built-in namespace.
BuiltinNamesResolve ==
    (/\ ResolvedCallerTree
     /\ heap["metaModel"].imports = Some(<<>>)
     /\ LocalNames(heap["metaModel"]) \cap BuiltinNames = {}
     /\ \A x \in Range(ReachedTypes(heap["metaModel"])) : x.name \in BuiltinNames)
    => /\ ~error.thrown
       /\ result.defined
       /\ \A x \in Range(ReachedTypes(heap[result.value])) : x.namespace = Some("concerto")

\* C5: resolveMetaModel on a model with an ImportType whose namespace is in the registry
\* and has no local declaration of its name throws the error "Declaration <name> in
\* namespace <namespace> not found" for such an import, and returns nothing.
MissingImportTargetRejected ==
    (/\ ResolvedCallerTree
     /\ \E imp \in Range(Imports(heap["metaModel"])) : MissingTarget(imp))
    => /\ ~result.defined
       /\ \E imp \in Range(Imports(heap["metaModel"])) :
             MissingTarget(imp) /\ error = DeclarationNotFound(imp.name, imp.namespace)

\* C6: resolveName throws "Name <name> not found" exactly when the name is no key of the
\* table, and returns the entry otherwise; resolveTypeNames throws that error for the
\* first reference it reaches whose name is no key of the table, and throws nothing when
\* there is none; resolveMetaModel, when the imports can be applied and a reference it
\* reaches is dangling, throws that error for a name that no import and no local
\* declaration introduces, and returns nothing.
DanglingNameRejected ==
    /\ lastCall.op = "resolveName" =>
          IF lastCall.name \in DOMAIN table.value
          THEN ~error.thrown /\ result = Some(table.value[lastCall.name])
          ELSE error = NameNotFound(lastCall.name) /\ ~result.defined
    /\ lastCall.op = "resolveTypeNames" =>
          LET unknown == SelectSeq(ReachedTypes(heap["metaModel"]), Unknown) IN
          IF Len(unknown) = 0
          THEN ~error.thrown
          ELSE error = NameNotFound(Head(unknown).name) /\ ~result.defined
    /\ (/\ ResolvedCallerTree
        /\ heap["metaModel"].imports.defined
        /\ \A imp \in Range(Imports(heap["metaModel"])) : ImportOk(imp)
        /\ \E x \in Range(ReachedTypes(heap["metaModel"])) : Dangling(heap["metaModel"], x.name))
       => /\ ~result.defined
          /\ \E x \in Range(ReachedTypes(heap["metaModel"])) :
                /\ error = NameNotFound(x.name)
                /\ x.name \notin LocalNames(heap["metaModel"])
                /\ \A imp \in Range(Imports(heap["metaModel"])) : ~Introduces(imp, x.name)

\* C7: a second resolveTypeNames over a tree that a first one resolved, with the same
\* table, throws nothing and leaves the tree as it is; resolveMetaModel applied to what
\* resolveMetaModel returned, with the same registry, throws nothing and returns a tree
\* equal to it, without validation and, for a caller's tree that matches the schema,
\* with validation too.
DoubleResolutionIdempotent ==
    /\ [][(lastCall'.op = "resolveTypeNames" /\ lastCall'.pass = 2 /\ ~error.thrown) =>
             (~error'.thrown /\ heap'["metaModel"] = heap["metaModel"])]_vars
    /\ []((/\ lastCall.op = "resolveMetaModel"
           /\ lastCall.metaModel # "metaModel"
           /\ (lastCall.validate => conforms(heap["metaModel"]))) =>
             (/\ ~error.thrown
              /\ result.defined
              /\ heap[result.value] = heap[lastCall.metaModel]))

\* C8: after resolveTypeNames returned, every DecoratorTypeReference argument of a
\* decorator of a property of a class-like declaration, of whatever property kind, has
\* the namespace the table gives for its name.
PropertyDecoratorsResolved ==
    (lastCall.op = "resolveTypeNames" /\ ~error.thrown) =>
        \A x \in Range(PropertyDecoratorTypes(heap["metaModel"])) : ResolvedByTable(x)

\* C9: resolveTypeNames leaves the properties of every EnumDeclaration as they were and
\* changes nothing of the tree but namespaces; it throws only "Name <name> not found" for
\* a name that stands outside the EnumProperties; when it returns, the references in the
\* own decorators of the EnumDeclarations have the namespace the table gives.  What
\* resolveMetaModel returns has the EnumProperties of its argument and differs from the
\* argument in namespaces only.
EnumPropertiesNotVisited ==
    /\ [][lastCall'.op = "resolveTypeNames" =>
             /\ EnumProperties(heap'["metaModel"]) = EnumProperties(heap["metaModel"])
             /\ Erase(heap'["metaModel"]) = Erase(heap["metaModel"])]_vars
    /\ []((lastCall.op = "resolveTypeNames" /\ error.thrown) =>
             \E x \in Range(ReachedTypes(heap["metaModel"])) : error = NameNotFound(x.name))
    /\ []((lastCall.op = "resolveTypeNames" /\ ~error.thrown) =>
             \A x \in Range(EnumDecoratorTypes(heap["metaModel"])) : ResolvedByTable(x))
    /\ []((lastCall.op = "resolveMetaModel" /\ result.defined) =>
             /\ EnumProperties(heap[result.value]) = EnumProperties(heap[lastCall.metaModel])
             /\ Erase(heap[result.value]) = Erase(heap[lastCall.metaModel]))

\* resolveTypeNames returned although the decorator of an EnumProperty refers to a name
\* the table does not have: that reference is still without namespace, while the
\* reference in the own decorators of an EnumDeclaration is resolved
EnumPropertySkipped ==
    /\ lastCall.op = "resolveTypeNames"
    /\ ~error.thrown
    /\ \E x \in Range(EnumPropertyTypes(heap["metaModel"])) :
          ~lookup(table.value, x.name).defined /\ ~x.namespace.defined
    /\ \E x \in Range(EnumDecoratorTypes(heap["metaModel"])) : ResolvedByTable(x)

\* C10: createNameTable throws nothing but "Declaration <name> in namespace <namespace>
\* not found"; for a model without an imports field it returns the built-in names
\* overridden by the local declarations.
NameTableFailuresSpecified ==
    lastCall.op = "createNameTable" =>
        /\ error.thrown =>
              \E imp \in Range(Imports(heap["metaModel"])) :
                  error = DeclarationNotFound(IF "name" \in DOMAIN imp THEN imp.name ELSE "",
                                              imp.namespace)
        /\ ~heap["metaModel"].imports.defined =>
              /\ ~error.thrown
              /\ table = Some([n \in BuiltinNames \cup LocalNames(heap["metaModel"]) |->
                                  IF n \in LocalNames(heap["metaModel"])
                                  THEN heap["metaModel"].namespace
                                  ELSE "concerto"])

=============================================================================
